---- MODULE Spec2Model ----
(***************************************************************************)
(* InstagramScraper.scrape (src/main.py) as a state machine.               *)
(*                                                                         *)
(* One run of scrape is a sequence of steps separated by its await points: *)
(* the constructor and start() of the extractor, the initial stealth       *)
(* report, one extract_graphql_data call per input URL, an optional        *)
(* chained profile extraction, the summary, the final stealth report and   *)
(* the cleanup in the finally block.  The extractor itself is an external  *)
(* collaborator: what it returns or raises is a nondeterministic input.    *)
(*                                                                         *)
(* Python values are tagged tuples, text is a sequence of one-character    *)
(* strings, a dict is a function whose domain is its key set.              *)
(*                                                                         *)
(* Four specifications share the module: Spec (the control flow of one     *)
(* call), SpecFields (one URL, extraction results that exercise the field  *)
(* rules), SpecFunctions (the two helper methods called directly) and      *)
(* SpecOverlap (two calls of scrape interleaved on one instance).          *)
(***************************************************************************)
EXTENDS Integers, Sequences, FiniteSets, TLC

\* ------------------------------------------------------------------ bounds

\* Longest input URL list the model explores.
MaxUrls == 2

\* ----------------------------------------------------------- Python values

None == <<"None">>
Txt(s) == <<"str", s>>
Num(n) == <<"int", n>>
Bool(b) == <<"bool", b>>
Lst(l) == <<"list", l>>
Dict(f) == <<"dict", f>>

EmptyStr == Txt(<<>>)
EmptyDict == [k \in {} |-> None]

IsStr(v) == v # None /\ v[1] = "str"
IsInt(v) == v # None /\ v[1] = "int"
IsBool(v) == v # None /\ v[1] = "bool"
IsList(v) == v # None /\ v[1] = "list"
IsDict(v) == v # None /\ v[1] = "dict"

\* Python truth value of v (the test made by `or`, `not` and `if`).
Truthy(v) ==
    IF v = None THEN FALSE
    ELSE IF v[1] = "bool" THEN v[2]
    ELSE IF v[1] = "int" THEN v[2] # 0
    ELSE IF v[1] = "dict" THEN DOMAIN v[2] # {}
    ELSE v[2] # <<>>

\* a or b
PyOr(a, b) == IF Truthy(a) THEN a ELSE b

\* d.get(k, dflt)
Get(d, k, dflt) == IF k \in DOMAIN d THEN d[k] ELSE dflt

\* d.update(e): the keys of e override those of d.
Update(d, e) ==
    [k \in (DOMAIN d) \cup (DOMAIN e) |-> IF k \in DOMAIN e THEN e[k] ELSE d[k]]

\* --------------------------------------------------------------------- text

\* `sub in s` for two texts.
Contains(sub, s) ==
    \E k \in 0..(Len(s) - Len(sub)) : SubSeq(s, k + 1, k + Len(sub)) = sub

DigitChars == <<"0", "1", "2", "3", "4", "5", "6", "7", "8", "9">>
DigitSet == {DigitChars[k] : k \in 1..10}
DigitValue(c) == (CHOOSE k \in 1..10 : DigitChars[k] = c) - 1

\* str(n) for a natural number n.
RECURSIVE NatToText(_)
NatToText(n) ==
    IF n < 10 THEN <<DigitChars[n + 1]>>
    ELSE NatToText(n \div 10) \o <<DigitChars[(n % 10) + 1]>>

\* str(n) for an integer n.
IntToText(n) == IF n < 0 THEN <<"-">> \o NatToText(0 - n) ELSE NatToText(n)

\* int(s) for a text of decimal digits.
RECURSIVE TextToNat(_)
TextToNat(s) ==
    IF Len(s) = 1 THEN DigitValue(s[1])
    ELSE 10 * TextToNat(SubSeq(s, 1, Len(s) - 1)) + DigitValue(s[Len(s)])

IsDigitText(s) == Len(s) >= 1 /\ \A k \in 1..Len(s) : s[k] \in DigitSet

\* s.replace(old, new): every non-overlapping occurrence, left to right.
RECURSIVE ReplaceAll(_, _, _)
ReplaceAll(s, old, new) ==
    IF Len(s) < Len(old) THEN s
    ELSE IF SubSeq(s, 1, Len(old)) = old
         THEN new \o ReplaceAll(SubSeq(s, Len(old) + 1, Len(s)), old, new)
         ELSE <<s[1]>> \o ReplaceAll(SubSeq(s, 2, Len(s)), old, new)

\* ------------------------------------------------------------ _format_count

RECURSIVE BitLen(_)
BitLen(m) == IF m = 0 THEN 0 ELSE 1 + BitLen(m \div 2)

\* The remainder left after k more binary digits of r / unit.
RECURSIVE RemAfter(_, _, _)
RemAfter(r, unit, k) == IF k = 0 THEN r ELSE RemAfter((2 * r) % unit, unit, k - 1)

\* count / unit is a float: the double nearest to the quotient (53 significant
\* bits).  1 when that double is above the exact quotient, -1 when below, 0
\* when the quotient is a double.
DoubleVsExact(n, unit) ==
    LET r == RemAfter(n % unit, unit, 53 - BitLen(n \div unit))
    IN  IF r = 0 THEN 0 ELSE IF 2 * r >= unit THEN 1 ELSE -1

\* Mutant of Tenths: the digits after the first decimal are cut off.
TenthsTruncated(n, unit) == (n * 10) \div unit

\* f"{n/unit:.1f}" as a number of tenths: the double is rounded to one
\* decimal digit, an exact tie going to the even digit.
Tenths(n, unit) ==
    LET q == (n * 10) \div unit
        r == (n * 10) % unit
    IN  IF 2 * r < unit THEN q
        ELSE IF 2 * r > unit THEN q + 1
        ELSE IF DoubleVsExact(n, unit) > 0 THEN q + 1
        ELSE IF DoubleVsExact(n, unit) < 0 THEN q
        ELSE IF q % 2 = 0 THEN q ELSE q + 1

\* f"{n/unit:.1f}{suffix}".replace('.0', '')
Abbreviate(n, unit, suffix) ==
    LET t == Tenths(n, unit)
    IN  ReplaceAll(NatToText(t \div 10) \o <<".">> \o NatToText(t % 10) \o <<suffix>>,
                   <<".", "0">>, <<>>)

Million == 1000000
Thousand == 1000

\* The try block of _format_count for an integer count.
FormatInt(n) ==
    IF n >= Million THEN Txt(Abbreviate(n, Million, "M"))
    ELSE IF n >= Thousand THEN Txt(Abbreviate(n, Thousand, "K"))
    ELSE Txt(IntToText(n))

\* int(count) succeeds: an int, a bool, or a text of decimal digits.
IntConvertible(count) ==
    IsInt(count) \/ IsBool(count) \/ (IsStr(count) /\ IsDigitText(count[2]))

IntOf(count) ==
    IF IsInt(count) THEN count[2]
    ELSE IF IsBool(count) THEN (IF count[2] THEN 1 ELSE 0)
    ELSE TextToNat(count[2])

_format_count(count) ==
    IF count = None THEN None
    ELSE IF IntConvertible(count) THEN FormatInt(IntOf(count))
    ELSE IF Truthy(count) THEN count
    ELSE None

\* ------------------------------------------- _determine_content_type_from_url

ReelMark == <<"/", "r", "e", "e", "l", "/">>
PostMark == <<"/", "p", "/">>
VideoText == Txt(<<"v", "i", "d", "e", "o">>)
ArticleText == Txt(<<"a", "r", "t", "i", "c", "l", "e">>)
ProfileText == Txt(<<"p", "r", "o", "f", "i", "l", "e">>)

\* data.get(k, {})
SubDict(data, k) == Get(data, k, Dict(EmptyDict))

\* v.get(k) on a value that should be a dict (callers check IsDict first).
DGet(v, k) == Get(v[2], k, None)

\* Mutant of HasVideoMarker: a video_url in the script data is not looked at.
HasVideoMarkerNoUrl(data) ==
    \/ DGet(SubDict(data, "meta_data"), "content_type") = VideoText
    \/ Truthy(DGet(SubDict(data, "script_data"), "is_video"))

HasVideoMarker(data) ==
    \/ DGet(SubDict(data, "meta_data"), "content_type") = VideoText
    \/ Truthy(DGet(SubDict(data, "script_data"), "is_video"))
    \/ Truthy(DGet(SubDict(data, "script_data"), "video_url"))

\* The .get chain of the '/p/' branch raises AttributeError on a source that
\* is not a dict; `or` stops at the first true operand.
ContentTypeRaises(url, data) ==
    /\ ~Contains(ReelMark, url)
    /\ Contains(PostMark, url)
    /\ \/ ~IsDict(SubDict(data, "meta_data"))
       \/ /\ DGet(SubDict(data, "meta_data"), "content_type") # VideoText
          /\ ~IsDict(SubDict(data, "script_data"))

_determine_content_type_from_url(url, data) ==
    IF Contains(ReelMark, url) THEN VideoText
    ELSE IF Contains(PostMark, url)
         THEN (IF HasVideoMarker(data) THEN VideoText ELSE ArticleText)
         ELSE ProfileText

\* --------------------------------------------------- the e-mail pattern
\* r'\b[A-Za-z0-9._%+-]+@[A-Za-z0-9.-]+\.[A-Z|a-z]{2,}\b'

Letters ==
    {"a", "b", "c", "d", "e", "f", "g", "h", "i", "j", "k", "l", "m", "n", "o",
     "p", "q", "r", "s", "t", "u", "v", "w", "x", "y", "z",
     "A", "B", "C", "D", "E", "F", "G", "H", "I", "J", "K", "L", "M", "N", "O",
     "P", "Q", "R", "S", "T", "U", "V", "W", "X", "Y", "Z"}

LocalCh(c) == c \in Letters \cup DigitSet \cup {".", "_", "%", "+", "-"}
DomCh(c) == c \in Letters \cup DigitSet \cup {".", "-"}
TldCh(c) == c \in Letters \cup {"|"}
WordCh(c) == c \in Letters \cup DigitSet \cup {"_"}

\* \b between s[p] and s[p+1] (p = 0 is the start, p = Len(s) the end).
Boundary(s, p) ==
    (p >= 1 /\ WordCh(s[p])) # (p < Len(s) /\ WordCh(s[p + 1]))

\* s[i..e] matches with the '@' at a and the dot before the last group at d.
MatchAt(s, i, a, d, e) ==
    /\ i < a /\ a + 1 < d /\ d + 2 <= e /\ e <= Len(s)
    /\ \A k \in i..(a - 1) : LocalCh(s[k])
    /\ s[a] = "@"
    /\ \A k \in (a + 1)..(d - 1) : DomCh(s[k])
    /\ s[d] = "."
    /\ \A k \in (d + 1)..e : TldCh(s[k])
    /\ Boundary(s, i - 1)
    /\ Boundary(s, e)

\* Where an '@' and where a '.' stand in s.
Ats(s) == {x \in 1..Len(s) : s[x] = "@"}
Dots(s) == {x \in 1..Len(s) : s[x] = "."}

MatchStarts(s) ==
    {i \in 1..Len(s) : \E a \in Ats(s), d \in Dots(s), e \in 1..Len(s) : MatchAt(s, i, a, d, e)}

Least(S) == CHOOSE x \in S : \A y \in S : x <= y
Greatest(S) == CHOOSE x \in S : \A y \in S : x >= y

\* Mutant of EmailSearch: the match that starts last in s.
EmailSearchLast(s) ==
    IF MatchStarts(s) = {} THEN <<>>
    ELSE LET i == Greatest(MatchStarts(s))
             a == CHOOSE x \in Ats(s) :
                     \E d \in Dots(s), e \in 1..Len(s) : MatchAt(s, i, x, d, e)
             d == Greatest({x \in Dots(s) :
                     \E e \in 1..Len(s) : MatchAt(s, i, a, x, e)})
             e == Greatest({x \in 1..Len(s) : MatchAt(s, i, a, d, x)})
         IN  SubSeq(s, i, e)

\* re.search(pattern, s).group(0), or the empty text when nothing matches:
\* the leftmost start, then the longest domain, then the longest last group
\* (the order in which the greedy quantifiers give back characters).
EmailSearch(s) ==
    IF MatchStarts(s) = {} THEN <<>>
    ELSE LET i == Least(MatchStarts(s))
             a == CHOOSE x \in Ats(s) :
                     \E d \in Dots(s), e \in 1..Len(s) : MatchAt(s, i, x, d, e)
             d == Greatest({x \in Dots(s) :
                     \E e \in 1..Len(s) : MatchAt(s, i, a, x, e)})
             e == Greatest({x \in 1..Len(s) : MatchAt(s, i, a, d, x)})
         IN  SubSeq(s, i, e)

\* ------------------------------------------------- building a clean entry

business_fields == {"business_email", "business_phone_number", "business_category_name"}

\* The thirteen profile fields read from user_data (lines 139-151, 188-200).
ProfileFields(user_data) ==
    [full_name |-> DGet(user_data, "full_name"),
     username |-> DGet(user_data, "username"),
     followers_count |-> _format_count(DGet(user_data, "followers_count")),
     following_count |-> _format_count(DGet(user_data, "following_count")),
     biography |-> Get(user_data[2], "biography", EmptyStr),
     bio_links |-> Get(user_data[2], "bio_links", Lst(<<>>)),
     is_private |-> Get(user_data[2], "is_private", Bool(FALSE)),
     is_verified |-> Get(user_data[2], "is_verified", Bool(FALSE)),
     is_business_account |-> Get(user_data[2], "is_business_account", Bool(FALSE)),
     is_professional_account |-> Get(user_data[2], "is_professional_account", Bool(TRUE)),
     business_email |-> DGet(user_data, "business_email"),
     business_phone_number |-> DGet(user_data, "business_phone_number"),
     business_category_name |-> DGet(user_data, "business_category_name")]

\* meta_data.get('username') or meta_data.get('username_from_title')
\*   or script_data.get('username')
DerivedUsername(meta_data, script_data) ==
    IF Truthy(PyOr(DGet(meta_data, "username"), DGet(meta_data, "username_from_title")))
    THEN PyOr(DGet(meta_data, "username"), DGet(meta_data, "username_from_title"))
    ELSE DGet(script_data, "username")

\* meta_data.get(mk) or script_data.get(sk)
Resolve(meta_data, mk, script_data, sk) ==
    IF Truthy(DGet(meta_data, mk)) THEN DGet(meta_data, mk) ELSE DGet(script_data, sk)

\* The five article/video fields (lines 163-169).
PostFields(meta_data, script_data) ==
    [likes_count |-> _format_count(Resolve(meta_data, "likes_count", script_data, "likes")),
     comments_count |-> _format_count(Resolve(meta_data, "comments_count", script_data, "comments")),
     username |-> DerivedUsername(meta_data, script_data),
     post_date |-> DGet(meta_data, "post_date"),
     caption |-> Resolve(meta_data, "caption", script_data, "caption")]

\* Lines 155-169 raise AttributeError when a .get is made on a source that is
\* not a dict; script_data is only read where `or` did not stop at meta_data.
PostFieldsRaise(meta_data, script_data) ==
    \/ ~IsDict(meta_data)
    \/ /\ ~IsDict(script_data)
       /\ (\/ ~Truthy(PyOr(DGet(meta_data, "username"),
                           DGet(meta_data, "username_from_title")))
           \/ ~Truthy(DGet(meta_data, "likes_count"))
           \/ ~Truthy(DGet(meta_data, "comments_count"))
           \/ ~Truthy(DGet(meta_data, "caption")))

\* Mutant of NormaliseBusiness: missing fields are added, empty ones are kept.
NormaliseBusinessKeepsEmpty(e) ==
    [k \in (DOMAIN e) \cup business_fields |-> IF k \notin DOMAIN e THEN None ELSE e[k]]

\* "Always include business fields, even if null" (lines 204-209, 230-235).
NormaliseBusiness(e) ==
    [k \in (DOMAIN e) \cup business_fields |->
        IF k \in business_fields /\ (k \notin DOMAIN e \/ e[k] = EmptyStr)
        THEN None ELSE e[k]]

\* The guard of the biography scan (lines 212, 238).
BackfillApplies(e) ==
    ~Truthy(Get(e, "business_email", None)) /\ Truthy(Get(e, "biography", None))

\* re.search raises TypeError on a biography that is not text.
BackfillRaises(e) == BackfillApplies(e) /\ ~IsStr(e["biography"])

\* "Try to extract business email from biography if not found".
Backfill(e) ==
    IF BackfillApplies(e) /\ EmailSearch(e["biography"][2]) # <<>>
    THEN [e EXCEPT !["business_email"] = Txt(EmailSearch(e["biography"][2]))]
    ELSE e

\* Mutant of StripNone: nothing is removed.
StripNoneKeepsAll(e) == e

\* "Remove None values for non-business fields" (lines 219, 245).
StripNone(e) ==
    [k \in {x \in DOMAIN e : e[x] # None \/ x \in business_fields} |-> e[k]]

\* Lines 229-245 / 203-219 applied to an entry under construction.
FinishEntry(e) == StripNone(Backfill(NormaliseBusiness(e)))

InstagramBase ==
    <<"h", "t", "t", "p", "s", ":", "/", "/", "w", "w", "w", ".", "i", "n", "s",
      "t", "a", "g", "r", "a", "m", ".", "c", "o", "m", "/">>

\* f"https://www.instagram.com/{username}/"
ProfileUrl(username) == InstagramBase \o username[2] \o <<"/">>

\* The entry of an input URL whose content type is profile (lines 130-152).
ProfileEntry(url, user_data) ==
    Update([url |-> Txt(url), content_type |-> ProfileText], ProfileFields(user_data))

\* The entry of an input URL whose content type is article or video.
PostEntry(url, content_type, meta_data, script_data) ==
    Update([url |-> Txt(url), content_type |-> content_type],
           PostFields(meta_data, script_data))

\* The chained profile entry (lines 185-201).
ChainedEntry(username, user_data) == ProfileEntry(ProfileUrl(username), user_data)

\* ------------------------------------------------------------------- state

VARIABLES
    urls,                   \* the argument of scrape
    enable_anti_detection,  \* self.enable_anti_detection
    output_file,            \* self.output_file is set
    extractor,              \* self.extractor: "None", or the state of its session
    pc,                     \* where scrape stands between two awaits
    i,                      \* the loop index of line 110 (1-based)
    all_extracted_data,     \* line 81
    errors,                 \* line 82
    processed_usernames,    \* line 108
    clean_entry,            \* the entry under construction across the chained await
    username,               \* the derived username across the chained await
    pending_raw,            \* extracted_data across the chained await
    output_file_path,       \* line 261
    result,                 \* the value scrape returns (EmptyDict until it is computed)
    attempts,               \* history: the url of every extract_graphql_data(url) of line 115
    chain_attempts,         \* history: username and input position of every chained extraction (line 179)
    origin,                 \* history: for each entry of data, its input position, whether it is
                            \*          a chained profile, and the extraction it was built from
    stop_calls,             \* history: number of extractor.stop() calls
    fn_args,                \* a direct call of a helper method: its name and arguments
    fn_result,              \* what that call returned or raised
    self_extractor,         \* self.extractor when two calls of scrape share the instance:
                            \*   0 for None, else the call whose constructor made the object
    session,                \* per extractor object: the state of its session
    call_urls,              \* per call of scrape: len(urls)
    call_pc,                \* per call: where it stands between two awaits
    call_i,                 \* per call: the loop index of line 110
    call_target             \* per call: the extractor object its pending await was made on

\* The state of one scrape call.
scrapeVars ==
    <<urls, enable_anti_detection, output_file, extractor, pc, i, all_extracted_data,
      errors, processed_usernames, clean_entry, username, pending_raw,
      output_file_path, result, attempts,
      chain_attempts, origin, stop_calls>>

\* The state of the other specifications, which a step of scrape leaves alone.
fnVars == <<fn_args, fn_result>>
overlapVars == <<self_extractor, session, call_urls, call_pc, call_i, call_target>>
otherVars == <<fnVars, overlapVars>>

vars == <<scrapeVars, otherVars>>

\* ------------------------------------------------------------------ inputs

T_a == Txt(<<"a">>)
T_b == Txt(<<"b">>)

UrlProfileA == InstagramBase \o <<"a", "/">>
UrlPost == InstagramBase \o <<"p", "/", "X", "/">>
UrlReel == InstagramBase \o <<"r", "e", "e", "l", "/", "Y", "/">>
UrlPool == {UrlProfileA, UrlPost, UrlReel}

\* Messages of the failures the extractor reports or raises.
TimeoutText == Txt(<<"t", "i", "m", "e", "o", "u", "t">>)
BoomText == Txt(<<"b", "o", "o", "m">>)
\* str(e) of the AttributeError / TypeError raised on a malformed extraction.
MalformedText == Txt(<<"b", "a", "d">>)

UserA ==
    Dict([username |-> T_a, full_name |-> Txt(<<"A">>), followers_count |-> Num(1500)])

\* What extract_graphql_data may return in the control-flow specification.
FlowRaws ==
    {[error |-> TimeoutText],
     [user_data |-> UserA, meta_data |-> Dict([username |-> T_a]),
      script_data |-> Dict(EmptyDict)],
     [meta_data |-> Dict(EmptyDict), script_data |-> Dict([username |-> T_b])],
     [user_data |-> None, meta_data |-> None],
     EmptyDict}

UrlLists(n) == UNION {[1..k -> UrlPool] : k \in 0..n}

\* The two calls of scrape that share one InstagramScraper.
Calls == {1, 2}

TypeOK ==
    /\ urls \in UrlLists(MaxUrls + 1)
    /\ enable_anti_detection \in BOOLEAN
    /\ output_file \in BOOLEAN
    /\ extractor \in {"None", "Idle", "Ready", "Stopped"}
    /\ pc \in {"begin", "start", "report", "loop", "chain", "final_report", "finally", "done"}
    /\ i \in 0..(Len(urls) + 1)
    /\ Len(origin) = Len(all_extracted_data)
    /\ stop_calls \in 0..1
    /\ self_extractor \in {0} \cup Calls
    /\ session \in [Calls -> {"Absent", "Starting", "Ready", "Failed", "Stopped"}]
    /\ call_pc \in [Calls -> {"pending", "start", "report", "extract", "chain",
                               "final_report", "stop", "done"}]
    /\ call_target \in [Calls -> {0} \cup Calls]

InitWith(n) ==
    /\ urls \in UrlLists(n)
    /\ enable_anti_detection \in BOOLEAN
    /\ output_file \in BOOLEAN
    /\ extractor = "None"
    /\ pc = "begin"
    /\ i = 0
    /\ all_extracted_data = <<>>
    /\ errors = <<>>
    /\ processed_usernames = {}
    /\ clean_entry = EmptyDict
    /\ username = None
    /\ pending_raw = EmptyDict
    /\ output_file_path = None
    /\ result = EmptyDict
    /\ attempts = <<>>
    /\ chain_attempts = <<>>
    /\ origin = <<>>
    /\ stop_calls = 0

\* No helper method is being called directly.
NoCall == <<"none">>

FnIdle == fn_args = NoCall /\ fn_result = NoCall

\* No call of the overlapping pair was made.
OverlapIdle ==
    /\ self_extractor = 0
    /\ session = [e \in Calls |-> "Absent"]
    /\ call_urls = [c \in Calls |-> 0]
    /\ call_pc = [c \in Calls |-> "done"]
    /\ call_i = [c \in Calls |-> 0]
    /\ call_target = [c \in Calls |-> 0]

OtherIdle == FnIdle /\ OverlapIdle

Init == InitWith(MaxUrls) /\ OtherIdle

\* ----------------------------------------------------------------- results

NoUrlsText == Txt(<<"N", "o", " ", "U", "R", "L", "s">>)
AllText == Txt(<<"A", "L", "L">>)
CriticalPrefix == <<"C", "r", "i", "t", "i", "c", "a", "l", ":", " ">>
FileName == Txt(<<"f">>)
Report == Dict([fingerprint_evasion |-> Dict(EmptyDict)])

\* Lines 65-72.
NoUrlsResult ==
    [success |-> FALSE, error |-> NoUrlsText, data |-> <<>>, summary |-> EmptyDict,
     errors |-> <<>>]

\* Mutant of ErrorRecord: the index counts from 0 (enumerate without its start).
ErrorRecordZeroBased(url, error, index) ==
    [url |-> url, error |-> error, index |-> index - 1]

ErrorRecord(url, error, index) == [url |-> url, error |-> error, index |-> index]

\* content_types of lines 273-279: content type -> number of entries.
Breakdown(data) ==
    [t \in {Get(data[k], "content_type", None) : k \in 1..Len(data)} |->
        Cardinality({k \in 1..Len(data) : Get(data[k], "content_type", None) = t})]

\* Lines 281-291.  The two wall-clock fields are left out; success_rate is the
\* fraction <<numerator, denominator>> of len(data) / len(urls) * 100.
Summary(n, data, errs, usernames) ==
    [total_original_urls |-> n,
     additional_profiles_extracted |-> Cardinality(usernames),
     total_extractions |-> Len(data),
     successful_extractions |-> Len(data),
     failed_extractions |-> Len(errs),
     success_rate |-> <<Len(data) * 100, n>>,
     content_type_breakdown |-> Breakdown(data)]

\* Mutant of NormalResult: success as soon as some data was extracted.
NormalResultSuccessOnData(data, errs, usernames, path, report) ==
    [success |-> Len(data) > 0,
     data |-> data,
     summary |-> Summary(Len(urls), data, errs, usernames),
     errors |-> errs,
     output_file |-> path,
     stealth_report |-> report]

\* Lines 319-326.
NormalResult(data, errs, usernames, path, report) ==
    [success |-> Len(errs) = 0,
     data |-> data,
     summary |-> Summary(Len(urls), data, errs, usernames),
     errors |-> errs,
     output_file |-> path,
     stealth_report |-> report]

\* Mutant of CriticalResult: the run-level error record is not appended.
CriticalResultNoRecord(e, data, errs, usernames) ==
    [success |-> FALSE,
     error |-> Txt(CriticalPrefix \o e[2]),
     data |-> data,
     summary |-> EmptyDict,
     errors |-> errs,
     output_file |-> None]

\* Lines 328-348: the handler of the outer try.
CriticalResult(e, data, errs, usernames) ==
    [success |-> FALSE,
     error |-> Txt(CriticalPrefix \o e[2]),
     data |-> data,
     summary |-> [total_original_urls |-> Len(urls),
                  additional_profiles_extracted |-> Cardinality(usernames),
                  total_extractions |-> Len(data),
                  successful_extractions |-> Len(data),
                  failed_extractions |-> Len(urls),
                  success_rate |-> <<0, 1>>,
                  content_type_breakdown |-> EmptyDict],
     errors |-> Append(errs, ErrorRecord(AllText, Txt(CriticalPrefix \o e[2]), 0)),
     output_file |-> None]

\* Mutant of AfterCleanup: an exception of stop() replaces the value being returned.
AfterCleanupPropagates(res, stop_raised) ==
    IF stop_raised THEN [exception |-> BoomText] ELSE res

\* Lines 353-357: an exception of stop() is caught, the value being returned stands.
AfterCleanup(res, stop_raised) == res

\* ----------------------------------------------------------------- actions

\* Lines 65-72: no URL, scrape returns before the try statement.
ScrapeNoUrls ==
    /\ pc = "begin" /\ urls = <<>>
    /\ result' = NoUrlsResult
    /\ pc' = "done"
    /\ UNCHANGED <<urls, enable_anti_detection, output_file, extractor, i,
                   all_extracted_data, errors, processed_usernames, clean_entry,
                   username, pending_raw, output_file_path, attempts, chain_attempts, origin,
                   stop_calls>>
    /\ UNCHANGED otherVars

\* Line 86: the extractor is created.
ConstructOk ==
    /\ pc = "begin" /\ urls # <<>>
    /\ extractor' = "Idle"
    /\ pc' = "start"
    /\ UNCHANGED <<urls, enable_anti_detection, output_file, i, all_extracted_data,
                   errors, processed_usernames, clean_entry, username, pending_raw,
                   output_file_path, result, attempts, chain_attempts, origin,
                   stop_calls>>
    /\ UNCHANGED otherVars

\* Line 86 raises: self.extractor keeps its value, the outer handler runs.
ConstructFails ==
    /\ pc = "begin" /\ urls # <<>>
    /\ result' = CriticalResult(BoomText, all_extracted_data, errors, {})
    /\ pc' = "finally"
    /\ UNCHANGED <<urls, enable_anti_detection, output_file, extractor, i,
                   all_extracted_data, errors, processed_usernames, clean_entry,
                   username, pending_raw, output_file_path, attempts, chain_attempts, origin,
                   stop_calls>>
    /\ UNCHANGED otherVars

\* Line 94 returns; with anti-detection off the loop is entered at once.
StartOk ==
    /\ pc = "start"
    /\ extractor' = "Ready"
    /\ pc' = IF enable_anti_detection THEN "report" ELSE "loop"
    /\ i' = IF enable_anti_detection THEN i ELSE 1
    /\ UNCHANGED <<urls, enable_anti_detection, output_file, all_extracted_data,
                   errors, processed_usernames, clean_entry, username, pending_raw,
                   output_file_path, result, attempts, chain_attempts, origin,
                   stop_calls>>
    /\ UNCHANGED otherVars

\* Mutant of StartFails: the exception of start() is passed over and the loop
\* is entered on a session that never became ready.
StartFailsContinues ==
    /\ pc = "start"
    /\ extractor' = "Stopped"
    /\ pc' = "loop"
    /\ i' = 1
    /\ UNCHANGED <<urls, enable_anti_detection, output_file, all_extracted_data,
                   errors, processed_usernames, clean_entry, username, pending_raw,
                   output_file_path, result, attempts, chain_attempts, origin,
                   stop_calls>>
    /\ UNCHANGED otherVars

\* Line 94 raises: the outer handler runs (processed_usernames is not bound yet).
StartFails ==
    /\ pc = "start"
    /\ extractor' = "Stopped"
    /\ result' = CriticalResult(BoomText, all_extracted_data, errors, {})
    /\ pc' = "finally"
    /\ UNCHANGED <<urls, enable_anti_detection, output_file, i, all_extracted_data,
                   errors, processed_usernames, clean_entry, username, pending_raw,
                   output_file_path, attempts, chain_attempts, origin, stop_calls>>
    /\ UNCHANGED otherVars

\* Whether a call of get_stealth_report may raise.  The extractor's contract:
\* "returns a report with all subsystems marked disabled if anti-detection was
\* never enabled - never raises".
StealthReportRaises == {FALSE}

\* Lines 98-108: the initial stealth report, then the loop is entered; a report
\* that raised would reach the outer handler.
InitialReport ==
    /\ pc = "report"
    /\ \E raised \in StealthReportRaises :
        IF raised
        THEN /\ result' = CriticalResult(BoomText, all_extracted_data, errors, {})
             /\ pc' = "finally"
             /\ UNCHANGED i
        ELSE /\ pc' = "loop"
             /\ i' = 1
             /\ UNCHANGED result
    /\ UNCHANGED <<urls, enable_anti_detection, output_file, extractor,
                   all_extracted_data, errors, processed_usernames, clean_entry,
                   username, pending_raw, output_file_path, attempts,
                   chain_attempts, origin, stop_calls>>
    /\ UNCHANGED otherVars

\* Lines 128-169 raise inside the per-URL try: a source that is not a dict, or
\* a biography that is not text.
ReconcileRaises(url, raw) ==
    IF ContentTypeRaises(url, raw) THEN TRUE
    ELSE IF _determine_content_type_from_url(url, raw) = ProfileText
    THEN IF ~IsDict(SubDict(raw, "user_data")) THEN TRUE
         ELSE BackfillRaises(NormaliseBusiness(ProfileEntry(url, SubDict(raw, "user_data"))))
    ELSE PostFieldsRaise(SubDict(raw, "meta_data"), SubDict(raw, "script_data"))

\* Mutant of NeedsChain: every username found is followed up again.
NeedsChainNoDedup(u, seen) == Truthy(u)

\* Line 172: the username is followed up when it is set and not yet seen.
NeedsChain(u, seen) == Truthy(u) /\ u \notin seen

\* Mutant of RecordError: the failure of one URL ends the loop (break for continue).
RecordErrorBreaks(url, e) ==
    /\ errors' = Append(errors, [url |-> Txt(url), error |-> e, index |-> i])
    /\ i' = Len(urls) + 1
    /\ UNCHANGED <<all_extracted_data, processed_usernames, clean_entry, username,
                   pending_raw, pc, chain_attempts, origin>>

\* Lines 117-125 and 250-258: the URL is recorded as failed, the loop goes on.
RecordError(url, e) ==
    /\ errors' = Append(errors, ErrorRecord(Txt(url), e, i))
    /\ i' = i + 1
    /\ UNCHANGED <<all_extracted_data, processed_usernames, clean_entry, username,
                   pending_raw, pc, chain_attempts, origin>>

\* Lines 229-246: the entry of the URL is completed and appended.
EmitEntry(e, raw) ==
    /\ all_extracted_data' = Append(all_extracted_data, FinishEntry(e))
    /\ origin' = Append(origin, [index |-> i, chained |-> FALSE, raw |-> raw])
    /\ i' = i + 1
    /\ UNCHANGED <<errors, processed_usernames, clean_entry, username,
                   pending_raw, pc, chain_attempts>>

\* Mutant of StartChain: the username is not marked as processed.
StartChainUnmarked(e, u, raw) ==
    /\ processed_usernames' = processed_usernames
    /\ clean_entry' = e
    /\ username' = u
    /\ pending_raw' = raw
    /\ chain_attempts' = Append(chain_attempts, [username |-> u, index |-> i])
    /\ pc' = "chain"
    /\ UNCHANGED <<all_extracted_data, errors, i, origin>>

\* Lines 172-179: the username is marked, the chained extraction is awaited.
StartChain(e, u, raw) ==
    /\ processed_usernames' = processed_usernames \cup {u}
    /\ clean_entry' = e
    /\ username' = u
    /\ pending_raw' = raw
    /\ chain_attempts' = Append(chain_attempts, [username |-> u, index |-> i])
    /\ pc' = "chain"
    /\ UNCHANGED <<all_extracted_data, errors, i, origin>>

\* Line 115 returns raw for urls[i]; lines 117-246 up to the next await.
ExtractReturns(raws) ==
    /\ pc = "loop" /\ i <= Len(urls)
    /\ \E raw \in raws :
        LET url == urls[i]
            content_type == _determine_content_type_from_url(url, raw)
            post == PostEntry(url, content_type, SubDict(raw, "meta_data"),
                              SubDict(raw, "script_data"))
        IN  /\ attempts' = Append(attempts, url)
            /\ IF Truthy(Get(raw, "error", None))
               THEN RecordError(url, raw["error"])
               ELSE IF ReconcileRaises(url, raw)
               THEN RecordError(url, MalformedText)
               ELSE IF content_type = ProfileText
               THEN EmitEntry(ProfileEntry(url, SubDict(raw, "user_data")), raw)
               ELSE IF NeedsChain(post["username"], processed_usernames)
               THEN StartChain(post, post["username"], raw)
               ELSE EmitEntry(post, raw)
    /\ UNCHANGED <<urls, enable_anti_detection, output_file, extractor,
                   output_file_path, result, stop_calls>>
    /\ UNCHANGED otherVars

\* Line 115 raises: the handler of lines 250-258.
ExtractRaises ==
    /\ pc = "loop" /\ i <= Len(urls)
    /\ attempts' = Append(attempts, urls[i])
    /\ RecordError(urls[i], BoomText)
    /\ UNCHANGED <<urls, enable_anti_detection, output_file, extractor,
                   output_file_path, result, stop_calls>>
    /\ UNCHANGED otherVars

\* The chained extraction gave a usable profile: no 'error', and lines 182-219
\* do not raise.
ChainSucceeds(raw, u) ==
    /\ ~Truthy(Get(raw, "error", None))
    /\ IsDict(SubDict(raw, "user_data"))
    /\ ~BackfillRaises(NormaliseBusiness(ChainedEntry(u, SubDict(raw, "user_data"))))

\* Mutant of ChainAppends: a failed chained extraction drops the originating entry.
ChainAppendsDropsOnFailure(ok, profile, chain_raw, entry, raw, index) ==
    IF ok
    THEN <<[entry |-> profile, origin |-> [index |-> index, chained |-> TRUE, raw |-> chain_raw]],
           [entry |-> entry, origin |-> [index |-> index, chained |-> FALSE, raw |-> raw]]>>
    ELSE <<>>

\* Mutant of ChainAppends: the profile entry is appended after the originating
\* entry.
ChainAppendsProfileLast(ok, profile, chain_raw, entry, raw, index) ==
    IF ok
    THEN <<[entry |-> entry, origin |-> [index |-> index, chained |-> FALSE, raw |-> raw]],
           [entry |-> profile, origin |-> [index |-> index, chained |-> TRUE, raw |-> chain_raw]]>>
    ELSE <<[entry |-> entry, origin |-> [index |-> index, chained |-> FALSE, raw |-> raw]]>>

\* What is appended once the chained extraction is over, each entry with its
\* history record: the profile entry when the extraction succeeded (line 220),
\* then in every case the originating entry (line 246).
ChainAppends(ok, profile, chain_raw, entry, raw, index) ==
    IF ok
    THEN <<[entry |-> profile, origin |-> [index |-> index, chained |-> TRUE, raw |-> chain_raw]],
           [entry |-> entry, origin |-> [index |-> index, chained |-> FALSE, raw |-> raw]]>>
    ELSE <<[entry |-> entry, origin |-> [index |-> index, chained |-> FALSE, raw |-> raw]]>>

EntriesOf(appends) == [k \in 1..Len(appends) |-> appends[k]["entry"]]
OriginsOf(appends) == [k \in 1..Len(appends) |-> appends[k]["origin"]]

\* Line 179 returns raw; lines 181-246.
ChainReturns(raws) ==
    /\ pc = "chain"
    /\ \E raw \in raws :
        LET ok == ChainSucceeds(raw, username)
            profile == IF ok
                       THEN FinishEntry(ChainedEntry(username, SubDict(raw, "user_data")))
                       ELSE EmptyDict
            appends == ChainAppends(ok, profile, raw, FinishEntry(clean_entry),
                                    pending_raw, i)
        IN  /\ all_extracted_data' = all_extracted_data \o EntriesOf(appends)
            /\ origin' = origin \o OriginsOf(appends)
    /\ clean_entry' = EmptyDict
    /\ username' = None
    /\ pending_raw' = EmptyDict
    /\ i' = i + 1
    /\ pc' = "loop"
    /\ UNCHANGED <<urls, enable_anti_detection, output_file, extractor, errors,
                   processed_usernames, output_file_path, result, attempts,
                   chain_attempts, stop_calls>>
    /\ UNCHANGED otherVars

\* Line 179 raises: the handler of lines 226-227, then lines 229-246.
ChainRaises ==
    /\ pc = "chain"
    /\ LET appends == ChainAppends(FALSE, EmptyDict, EmptyDict,
                                    FinishEntry(clean_entry), pending_raw, i)
       IN  /\ all_extracted_data' = all_extracted_data \o EntriesOf(appends)
           /\ origin' = origin \o OriginsOf(appends)
    /\ clean_entry' = EmptyDict
    /\ username' = None
    /\ pending_raw' = EmptyDict
    /\ i' = i + 1
    /\ pc' = "loop"
    /\ UNCHANGED <<urls, enable_anti_detection, output_file, extractor, errors,
                   processed_usernames, output_file_path, result, attempts,
                   chain_attempts, stop_calls>>
    /\ UNCHANGED otherVars

\* Lines 260-299 up to the await of the final report: the file is written (or
\* writing it fails, which is only printed); without anti-detection the result
\* is built at once.
AfterLoop ==
    /\ pc = "loop" /\ i > Len(urls)
    /\ \E saved \in BOOLEAN :
        LET path == IF output_file /\ saved THEN FileName ELSE None
        IN  /\ output_file_path' = path
            /\ IF enable_anti_detection /\ extractor # "None"
               THEN /\ pc' = "final_report"
                    /\ UNCHANGED result
               ELSE /\ pc' = "finally"
                    /\ result' = NormalResult(all_extracted_data, errors,
                                              processed_usernames, path, None)
    /\ UNCHANGED <<urls, enable_anti_detection, output_file, extractor, i,
                   all_extracted_data, errors, processed_usernames, clean_entry,
                   username, pending_raw, attempts, chain_attempts, origin, stop_calls>>
    /\ UNCHANGED otherVars

\* Lines 297-326: the final stealth report arrives (a report that raised is
\* passed over, line 298), the result is built.
FinalReport ==
    /\ pc = "final_report"
    /\ \E raised \in StealthReportRaises :
        result' = NormalResult(all_extracted_data, errors, processed_usernames,
                               output_file_path, IF raised THEN None ELSE Report)
    /\ pc' = "finally"
    /\ UNCHANGED <<urls, enable_anti_detection, output_file, extractor, i,
                   all_extracted_data, errors, processed_usernames, clean_entry,
                   username, pending_raw, output_file_path, attempts, chain_attempts, origin,
                   stop_calls>>
    /\ UNCHANGED otherVars

\* Lines 350-357: stop() is called when self.extractor is set; it may raise.
Cleanup ==
    /\ pc = "finally"
    /\ IF extractor # "None"
       THEN /\ stop_calls' = stop_calls + 1
            /\ extractor' = "Stopped"
            /\ \E stop_raised \in BOOLEAN : result' = AfterCleanup(result, stop_raised)
       ELSE UNCHANGED <<stop_calls, extractor, result>>
    /\ pc' = "done"
    /\ UNCHANGED <<urls, enable_anti_detection, output_file, i, all_extracted_data,
                   errors, processed_usernames, clean_entry, username, pending_raw,
                   output_file_path, attempts, chain_attempts, origin>>
    /\ UNCHANGED otherVars

Next ==
    \/ ScrapeNoUrls
    \/ ConstructOk
    \/ ConstructFails
    \/ StartOk
    \/ StartFails
    \/ InitialReport
    \/ ExtractReturns(FlowRaws)
    \/ ExtractRaises
    \/ ChainReturns(FlowRaws)
    \/ ChainRaises
    \/ AfterLoop
    \/ FinalReport
    \/ Cleanup

Spec == Init /\ [][Next]_vars

\* ------------------------------------------- the field-level specification
\* The same run over one URL, with extraction results that exercise the field
\* rules: values that are None, empty, zero, text counts, a biography holding
\* an e-mail address, sources that are not dicts.

\* Longest input URL list of the field-level specification.
MaxFieldUrls == 1

BioWithEmail == Txt(<<"m", " ", "a", "@", "b", ".", "c", "c">>)
\* Two addresses, the first followed by a group too short to belong to it.
BioWithTwoEmails ==
    Txt(<<"a", "@", "b", ".", "c", "c", ".", "d", " ", "e", "@", "f", ".", "g", "g">>)
OwnEmail == Txt(<<"e", "@", "f", ".", "g", "g">>)

FieldUsers ==
    {Dict([username |-> T_a, full_name |-> None, followers_count |-> Num(1500),
           following_count |-> Txt(<<"1", "2">>), biography |-> BioWithEmail,
           business_email |-> EmptyStr, business_phone_number |-> EmptyStr,
           business_category_name |-> EmptyStr]),
     Dict([username |-> T_a, followers_count |-> None, biography |-> BioWithEmail,
           business_email |-> OwnEmail, business_phone_number |-> Txt(<<"1">>)]),
     Dict([username |-> T_b, biography |-> Txt(<<"x">>), business_email |-> None,
           is_private |-> Bool(TRUE)]),
     Dict([username |-> T_b, biography |-> BioWithTwoEmails]),
     Dict([biography |-> Num(5)]),
     Dict(EmptyDict),
     None}

FieldMetas ==
    {Dict([username |-> T_a, likes_count |-> Num(0), comments_count |-> Txt(<<"1", "2">>),
           caption |-> EmptyStr, post_date |-> Txt(<<"d">>)]),
     Dict([username_from_title |-> T_a, likes_count |-> Num(1500),
           content_type |-> VideoText]),
     Dict(EmptyDict),
     None}

FieldScripts ==
    {Dict([username |-> T_b, likes |-> Num(5), comments |-> Num(3),
           caption |-> Txt(<<"c">>), is_video |-> Bool(TRUE)]),
     Dict(EmptyDict),
     None}

FieldRaws ==
    {[error |-> TimeoutText]}
    \cup {[user_data |-> u] : u \in FieldUsers}
    \cup {[meta_data |-> m, script_data |-> sd] : m \in FieldMetas, sd \in FieldScripts}

InitFields ==
    InitWith(MaxFieldUrls) /\ enable_anti_detection /\ ~output_file /\ OtherIdle

NextFields ==
    \/ ScrapeNoUrls
    \/ ConstructOk
    \/ ConstructFails
    \/ StartOk
    \/ StartFails
    \/ InitialReport
    \/ ExtractReturns(FieldRaws)
    \/ ExtractRaises
    \/ ChainReturns(FieldRaws)
    \/ ChainRaises
    \/ AfterLoop
    \/ FinalReport
    \/ Cleanup

SpecFields == InitFields /\ [][NextFields]_vars

\* ---------------------------------------- the helper-method specification
\* _determine_content_type_from_url and _format_count called directly, as a
\* caller holding an InstagramScraper may do, on arguments drawn from the sets
\* below.  No scrape call is running.

\* Most path segments an argument URL is made of.
MaxSegments == 2

Segments ==
    {ReelMark, PostMark, <<"/", "u", "/">>, <<"/", "P", "/">>, <<"r", "e", "e", "l", "/">>,
     <<"/", "r", "e", "e", "l", "s", "/">>, <<"p", "/">>}

RECURSIVE Flatten(_)
Flatten(parts) == IF parts = <<>> THEN <<>> ELSE Head(parts) \o Flatten(Tail(parts))

ArgUrls == {Flatten(parts) : parts \in UNION {[1..k -> Segments] : k \in 0..MaxSegments}}

ArgMetas ==
    {Dict(EmptyDict), Dict([content_type |-> VideoText]),
     Dict([content_type |-> ArticleText]), Dict([content_type |-> None]), None}

ArgScripts ==
    {Dict(EmptyDict), Dict([is_video |-> Bool(TRUE)]), Dict([is_video |-> Bool(FALSE)]),
     Dict([video_url |-> Txt(<<"v">>)]), Dict([video_url |-> EmptyStr]),
     Dict([is_video |-> None, video_url |-> None]), None}

\* The extraction results passed as `data`: either source may be missing.
ArgDatas ==
    {EmptyDict}
    \cup {[meta_data |-> m] : m \in ArgMetas}
    \cup {[script_data |-> sd] : sd \in ArgScripts}
    \cup {[meta_data |-> m, script_data |-> sd] : m \in ArgMetas, sd \in ArgScripts}

ContentTypeCalls ==
    {<<"_determine_content_type_from_url", url, data>> : url \in ArgUrls, data \in ArgDatas}

\* Largest count of the dense range of argument counts, and the number of
\* further counts sampled above it, CountStep apart.
MaxCount == 1100000
MaxSamples == 400
CountStep == Million \div 20
\* Size of the range of negative counts.
MaxNegative == 1500

\* The integer counts passed to _format_count: every integer from -MaxNegative to
\* MaxCount, and the multiples of CountStep (the counts halfway between two
\* tenths of a million among them) with their two neighbours.
DenseCounts == (0 - MaxNegative)..MaxCount
SampledCounts == {k * CountStep + d : k \in 1..MaxSamples, d \in {-1, 0, 1}}

FormatCountCall(n) == <<"_format_count", Num(n)>>

FnPending == <<"pending">>
Returned(v) == <<"return", v>>
Raised == <<"raise">>


InitFunctions ==
    /\ InitWith(0) /\ ~enable_anti_detection /\ ~output_file
    /\ \/ fn_args \in ContentTypeCalls
       \/ \E n \in DenseCounts : fn_args = FormatCountCall(n)
       \/ \E n \in SampledCounts : fn_args = FormatCountCall(n)
    /\ fn_result = FnPending
    /\ OverlapIdle

\* self._determine_content_type_from_url(url, data)
CallDetermineContentType ==
    /\ fn_args[1] = "_determine_content_type_from_url" /\ fn_result = FnPending
    /\ fn_result' =
           IF ContentTypeRaises(fn_args[2], fn_args[3]) THEN Raised
           ELSE Returned(_determine_content_type_from_url(fn_args[2], fn_args[3]))
    /\ UNCHANGED <<scrapeVars, fn_args, overlapVars>>

\* self._format_count(count)
CallFormatCount ==
    /\ fn_args[1] = "_format_count" /\ fn_result = FnPending
    /\ fn_result' = Returned(_format_count(fn_args[2]))
    /\ UNCHANGED <<scrapeVars, fn_args, overlapVars>>

NextFunctions ==
    \/ CallDetermineContentType
    \/ CallFormatCount

SpecFunctions == InitFunctions /\ [][NextFunctions]_vars

\* ------------------------------------------ two overlapping calls of scrape
\* asyncio.gather(scraper.scrape(a), scraper.scrape(b)) on one InstagramScraper:
\* each call runs from one await to the next without interruption, and at an
\* await the other call may run.  What the calls share is self.extractor; the
\* lists a call builds are its own and are left out here.  Every method of the
\* extractor is called as self.extractor.<method>(), on the object the
\* attribute refers to at that moment.

\* Longest input URL list of a call of the overlapping pair.
MaxCallUrls == 1

InitOverlap ==
    /\ InitWith(0) /\ ~output_file
    /\ FnIdle
    /\ self_extractor = 0
    /\ session = [e \in Calls |-> "Absent"]
    /\ call_urls \in [Calls -> 0..MaxCallUrls]
    /\ call_pc = [c \in Calls |-> "pending"]
    /\ call_i = [c \in Calls |-> 0]
    /\ call_target = [c \in Calls |-> 0]

\* Lines 350-357: the await of the finally block, given self.extractor.
Finally(ext) == IF ext # 0 THEN "stop" ELSE "done"

\* The await a call reaches when it goes on with input position k (lines
\* 110-115), or past the last one (lines 260-357).
NextAwait(c, k, ext) ==
    IF k <= call_urls[c] THEN "extract"
    ELSE IF enable_anti_detection /\ ext # 0 THEN "final_report"
    ELSE Finally(ext)

\* Call c suspends at the await `where`, made on the object self.extractor
\* refers to; stop() ends the session of that object.  sessions is the state
\* of the sessions once the await that just ended has had its effect.
Suspend(c, where, k, ext, sessions) ==
    /\ call_pc' = [call_pc EXCEPT ![c] = where]
    /\ call_i' = [call_i EXCEPT ![c] = k]
    /\ call_target' = [call_target EXCEPT ![c] = IF where = "done" THEN 0 ELSE ext]
    /\ session' = IF where = "stop" THEN [sessions EXCEPT ![ext] = "Stopped"] ELSE sessions
    /\ self_extractor' = ext

\* Lines 65-72: a call without URLs returns at once.
CallNoUrls(c) ==
    /\ call_pc[c] = "pending" /\ call_urls[c] = 0
    /\ Suspend(c, "done", 0, self_extractor, session)
    /\ UNCHANGED <<scrapeVars, fnVars, call_urls>>

\* Lines 86-94: the call makes its extractor, stores it in self.extractor and
\* awaits its start().
CallConstructs(c) ==
    /\ call_pc[c] = "pending" /\ call_urls[c] > 0
    /\ Suspend(c, "start", 0, c, [session EXCEPT ![c] = "Starting"])
    /\ UNCHANGED <<scrapeVars, fnVars, call_urls>>

\* Line 86 raises: self.extractor keeps its value; the handler, then the
\* finally block.
CallConstructFails(c) ==
    /\ call_pc[c] = "pending" /\ call_urls[c] > 0
    /\ Suspend(c, Finally(self_extractor), 0, self_extractor, session)
    /\ UNCHANGED <<scrapeVars, fnVars, call_urls>>

\* Line 94 returns: the session started is ready (unless it was stopped
\* meanwhile); lines 98-115 up to the next await.
CallStartReturns(c) ==
    /\ call_pc[c] = "start"
    /\ LET sessions == [session EXCEPT ![call_target[c]] =
                            IF @ = "Starting" THEN "Ready" ELSE @]
       IN  IF enable_anti_detection
           THEN Suspend(c, "report", 0, self_extractor, sessions)
           ELSE Suspend(c, NextAwait(c, 1, self_extractor), 1, self_extractor, sessions)
    /\ UNCHANGED <<scrapeVars, fnVars, call_urls>>

\* Line 94 raises: the handler, then the finally block.
CallStartRaises(c) ==
    /\ call_pc[c] = "start"
    /\ LET sessions == [session EXCEPT ![call_target[c]] =
                            IF @ = "Starting" THEN "Failed" ELSE @]
       IN  Suspend(c, Finally(self_extractor), 0, self_extractor, sessions)
    /\ UNCHANGED <<scrapeVars, fnVars, call_urls>>

\* Line 100 returns; the loop is entered.
CallReportReturns(c) ==
    /\ call_pc[c] = "report"
    /\ Suspend(c, NextAwait(c, 1, self_extractor), 1, self_extractor, session)
    /\ UNCHANGED <<scrapeVars, fnVars, call_urls>>

\* Line 115 returns or raises: the URL failed or gave an entry, and the loop
\* goes on; or it gave a username to follow up, and line 179 is awaited.
CallExtractReturns(c) ==
    /\ call_pc[c] = "extract"
    /\ \E chained \in BOOLEAN :
        IF chained
        THEN Suspend(c, "chain", call_i[c], self_extractor, session)
        ELSE Suspend(c, NextAwait(c, call_i[c] + 1, self_extractor), call_i[c] + 1,
                     self_extractor, session)
    /\ UNCHANGED <<scrapeVars, fnVars, call_urls>>

\* Line 179 returns or raises; the loop goes on.
CallChainReturns(c) ==
    /\ call_pc[c] = "chain"
    /\ Suspend(c, NextAwait(c, call_i[c] + 1, self_extractor), call_i[c] + 1,
               self_extractor, session)
    /\ UNCHANGED <<scrapeVars, fnVars, call_urls>>

\* Line 297 returns; the result is built, then the finally block.
CallFinalReportReturns(c) ==
    /\ call_pc[c] = "final_report"
    /\ Suspend(c, Finally(self_extractor), call_i[c], self_extractor, session)
    /\ UNCHANGED <<scrapeVars, fnVars, call_urls>>

\* Line 354 returns or raises; scrape returns.
CallStopReturns(c) ==
    /\ call_pc[c] = "stop"
    /\ Suspend(c, "done", call_i[c], self_extractor, session)
    /\ UNCHANGED <<scrapeVars, fnVars, call_urls>>

NextOverlap ==
    \/ \E c \in Calls : CallNoUrls(c)
    \/ \E c \in Calls : CallConstructs(c)
    \/ \E c \in Calls : CallConstructFails(c)
    \/ \E c \in Calls : CallStartReturns(c)
    \/ \E c \in Calls : CallStartRaises(c)
    \/ \E c \in Calls : CallReportReturns(c)
    \/ \E c \in Calls : CallExtractReturns(c)
    \/ \E c \in Calls : CallChainReturns(c)
    \/ \E c \in Calls : CallFinalReportReturns(c)
    \/ \E c \in Calls : CallStopReturns(c)

SpecOverlap == InitOverlap /\ [][NextOverlap]_vars

\* ------------------------------------------------------------------ claims

\* The URL loop was entered: the extractor was created and started.
LoopEntered == i >= 1

\* The URL loop is over and was not skipped.
LoopDone == LoopEntered /\ i > Len(urls) /\ pc \in {"loop", "final_report", "finally", "done"}

ErrorsAt(k) == {j \in 1..Len(errors) : errors[j]["index"] = k}
EntriesAt(k) == {j \in 1..Len(origin) : origin[j]["index"] = k /\ ~origin[j]["chained"]}
ChainedAt(k) == {j \in 1..Len(origin) : origin[j]["index"] = k /\ origin[j]["chained"]}

\* Some step of the run is possible: the extractor's answer to the pending call
\* (here: that it raises, or returns normally where it cannot fail) is handled.
CanStep ==
    ENABLED (ScrapeNoUrls \/ ConstructOk \/ StartOk \/ InitialReport \/ ExtractRaises
             \/ ChainRaises \/ AfterLoop \/ FinalReport \/ Cleanup)

\* C1: once start() has succeeded, a failing URL never stops the run: the
\* URLs attempted so far are exactly the first ones of the input, in order and
\* once each; after the loop every URL has been attempted; the run can always
\* take its next step until scrape has returned, and what it returns is the
\* result of a completed run, not the run-level failure.
C1_EveryUrlAttempted ==
    /\ pc = "loop" /\ i <= Len(urls) => attempts = SubSeq(urls, 1, i - 1)
    /\ pc = "chain" => attempts = SubSeq(urls, 1, i)
    /\ LoopEntered /\ pc \in {"final_report", "finally", "done"} => attempts = urls
    /\ LoopEntered /\ pc = "done" => "stealth_report" \in DOMAIN result
    /\ pc # "done" => CanStep

\* C1 witness: a run of two URLs has returned; the first URL failed and the
\* second was still attempted and extracted.
C1_Witness ==
    /\ pc = "done" /\ Len(urls) = 2 /\ attempts = urls
    /\ ErrorsAt(1) # {} /\ EntriesAt(2) # {}

\* C2: when the loop is over every input position k is accounted for exactly
\* once: one error record {url: urls[k], index: k} and no entry built for k, or
\* one non-chained entry with url = urls[k] and no error record of index k; so
\* len(errors) + number of non-chained entries = len(urls).
C2_EveryPositionAccounted ==
    LoopDone =>
        /\ \A k \in 1..Len(urls) :
            \/ /\ Cardinality(ErrorsAt(k)) = 1
               /\ \A j \in ErrorsAt(k) : errors[j]["url"] = Txt(urls[k])
               /\ EntriesAt(k) = {} /\ ChainedAt(k) = {}
            \/ /\ Cardinality(EntriesAt(k)) = 1
               /\ \A j \in EntriesAt(k) : all_extracted_data[j]["url"] = Txt(urls[k])
               /\ ErrorsAt(k) = {}
        /\ \A j \in 1..Len(errors) : errors[j]["index"] \in 1..Len(urls)
        /\ \A j \in 1..Len(origin) : origin[j]["index"] \in 1..Len(urls)
        /\ Len(errors) + Cardinality({j \in 1..Len(origin) : ~origin[j]["chained"]})
               = Len(urls)

\* C2 witness: a completed run of two URLs with one error record, one entry
\* and one chained profile entry.
C2_Witness ==
    /\ LoopDone /\ pc = "done" /\ Len(urls) = 2
    /\ Len(errors) = 1 /\ Len(all_extracted_data) = 2
    /\ \E j \in 1..Len(origin) : origin[j]["chained"]

\* C3: in every returned result success is true only when errors is empty,
\* and the data of a completed run holds the entry of every URL that did not
\* fail, also when other URLs failed.
C3_SuccessOnlyWithoutErrors ==
    pc = "done" =>
        /\ result["success"] => result["errors"] = <<>>
        /\ LoopEntered =>
            \A k \in 1..Len(urls) :
                ErrorsAt(k) = {} =>
                    \E j \in EntriesAt(k) :
                        /\ j <= Len(result["data"])
                        /\ result["data"][j] = all_extracted_data[j]
                        /\ result["data"][j]["url"] = Txt(urls[k])

\* C3 witness: a returned partial success: one URL failed, another one is in data.
C3_Witness ==
    /\ pc = "done" /\ LoopEntered
    /\ ~result["success"] /\ Len(result["errors"]) = 1 /\ Len(result["data"]) >= 1

\* The result a run builds from its final state: the one of a completed loop,
\* or the run-level failure of a constructor or start() that raised.
ExpectedResult ==
    IF LoopEntered
    THEN NormalResult(all_extracted_data, errors, processed_usernames, output_file_path,
                      IF enable_anti_detection THEN Report ELSE None)
    ELSE CriticalResult(BoomText, <<>>, <<>>, {})

\* C4: on every path on which an extractor was created, stop() has been called
\* exactly once when scrape returns and not before the result was computed,
\* and the result returned is the one computed before the cleanup, whether or
\* not stop() raised.
C4_StopExactlyOnce ==
    /\ pc # "done" => stop_calls = 0
    /\ pc = "done" /\ extractor # "None" => stop_calls = 1 /\ extractor = "Stopped"
    /\ pc = "done" /\ extractor = "None" => stop_calls = 0
    /\ pc = "done" /\ urls # <<>> => result = ExpectedResult

\* C4 witness: start() raised, the run has returned and stop() was called once.
C4_Witness ==
    pc = "done" /\ ~LoopEntered /\ extractor = "Stopped" /\ stop_calls = 1

\* C5: only a startup failure aborts the run: when the constructor or start()
\* raised, no extraction call was made, and scrape returns success = false,
\* empty data and the single error record {url: 'ALL', index: 0}; a run whose
\* startup succeeded never returns a run-level error record.
C5_StartupFailureAborts ==
    /\ ~LoopEntered => attempts = <<>> /\ chain_attempts = <<>>
    /\ pc = "done" /\ urls # <<>> /\ ~LoopEntered =>
        /\ "success" \in DOMAIN result /\ ~result["success"]
        /\ result["data"] = <<>>
        /\ Len(result["errors"]) = 1
        /\ result["errors"][1]["url"] = AllText
        /\ result["errors"][1]["index"] = 0
    /\ pc = "done" /\ LoopEntered =>
        \A j \in 1..Len(result["errors"]) : result["errors"][j]["index"] >= 1

\* C5 witness: the constructor raised on a run with URLs, and scrape returned.
C5_Witness ==
    pc = "done" /\ urls # <<>> /\ extractor = "None" /\ result # EmptyDict

DerivedNames == {T_a, T_b}
PostTypes == {ArticleText, VideoText}

\* The article/video entries of data whose derived username is u.
PostEntriesOf(u) ==
    {j \in 1..Len(all_extracted_data) :
        /\ ~origin[j]["chained"]
        /\ all_extracted_data[j]["content_type"] \in PostTypes
        /\ Get(all_extracted_data[j], "username", None) = u}

\* The chained profile entries of data made for username u.
ChainedFor(u) ==
    {j \in 1..Len(all_extracted_data) :
        origin[j]["chained"] /\ all_extracted_data[j]["url"] = Txt(ProfileUrl(u))}

ChainAttemptsFor(u) ==
    {j \in 1..Len(chain_attempts) : chain_attempts[j]["username"] = u}

\* C6 as claimed: two article/video URLs of one run that yield the same
\* username give exactly one chained profile entry for it.
C6_ExactlyOneChainedProfile ==
    LoopDone =>
        \A u \in DerivedNames :
            Cardinality(PostEntriesOf(u)) >= 2 => Cardinality(ChainedFor(u)) = 1

\* C6 as amended: two article/video URLs of one run that yield the same
\* username give at most one chained profile entry for it; the username is
\* followed up once, by the first of these URLs, so the entry exists when that
\* one chained extraction succeeded and is never made up for by a later URL.
C6_AtMostOneChainedProfile ==
    \A u \in DerivedNames :
        Cardinality(PostEntriesOf(u)) >= 2 =>
            /\ Cardinality(ChainedFor(u)) <= 1
            /\ Cardinality(ChainAttemptsFor(u)) = 1
            /\ \A c \in ChainAttemptsFor(u) : \A j \in PostEntriesOf(u) :
                   chain_attempts[c]["index"] <= origin[j]["index"]
            /\ \A j \in ChainedFor(u) : \A c \in ChainAttemptsFor(u) :
                   origin[j]["index"] = chain_attempts[c]["index"]

\* C6 witness: two post entries with username a and one chained profile of a.
C6_Witness ==
    /\ LoopDone /\ pc = "done"
    /\ Cardinality(PostEntriesOf(T_a)) = 2 /\ Cardinality(ChainedFor(T_a)) = 1

IsProfileEntry(e) == e["content_type"] = ProfileText

\* C7 as claimed: data never holds two profile entries for the same username,
\* whether they come from input profile URLs or from chained extractions.
C7_NoDuplicateProfile ==
    \A j1, j2 \in 1..Len(all_extracted_data) :
        /\ j1 # j2
        /\ IsProfileEntry(all_extracted_data[j1])
        /\ IsProfileEntry(all_extracted_data[j2])
        /\ "username" \in DOMAIN all_extracted_data[j1]
        /\ "username" \in DOMAIN all_extracted_data[j2]
        => all_extracted_data[j1]["username"] # all_extracted_data[j2]["username"]

\* C8: a chained extraction that failed (no chained entry was appended for its
\* position) leaves the originating entry in data, with the username that was
\* followed up, and no error record for its position; a run whose only
\* failures are chained ones returns success = true.
C8_ChainFailureKeepsEntry ==
    /\ \A c \in 1..Len(chain_attempts) :
        chain_attempts[c]["index"] < i /\ ChainedAt(chain_attempts[c]["index"]) = {} =>
            /\ Cardinality(EntriesAt(chain_attempts[c]["index"])) = 1
            /\ \A j \in EntriesAt(chain_attempts[c]["index"]) :
                   all_extracted_data[j]["username"] = chain_attempts[c]["username"]
            /\ ErrorsAt(chain_attempts[c]["index"]) = {}
    /\ pc = "done" /\ LoopEntered /\ (\A k \in 1..Len(urls) : EntriesAt(k) # {})
           => result["success"]

\* C8 witness: a returned run in which a chained extraction was made, no
\* chained entry exists, and success is true.
C8_Witness ==
    /\ pc = "done" /\ LoopEntered /\ chain_attempts # <<>>
    /\ \A j \in 1..Len(origin) : ~origin[j]["chained"]
    /\ result["success"]

\* The user_data a profile entry (direct or chained) was built from.
UserDataOf(j) == SubDict(origin[j]["raw"], "user_data")

\* C9: every entry of data has the three business keys; none holds an empty
\* string: missing ones are null, and a phone number or category that the
\* source gave as '' is stored as null (an e-mail given as '' is null or the
\* address found in the biography).
C9_BusinessFieldsPresent ==
    \A j \in 1..Len(all_extracted_data) :
        /\ business_fields \subseteq DOMAIN all_extracted_data[j]
        /\ \A f \in business_fields : all_extracted_data[j][f] # EmptyStr
        /\ all_extracted_data[j]["content_type"] \in PostTypes =>
               \A f \in business_fields : all_extracted_data[j][f] = None
        /\ IsProfileEntry(all_extracted_data[j]) =>
               \A f \in {"business_phone_number", "business_category_name"} :
                   all_extracted_data[j][f] =
                       IF DGet(UserDataOf(j), f) = EmptyStr THEN None
                       ELSE DGet(UserDataOf(j), f)

\* C9 witness: a chained profile entry whose source gave '' for the phone
\* number, stored as null, beside its article or video entry.
C9_Witness ==
    \E j \in 1..Len(all_extracted_data) :
        /\ origin[j]["chained"]
        /\ DGet(UserDataOf(j), "business_phone_number") = EmptyStr
        /\ all_extracted_data[j]["business_phone_number"] = None
        /\ j < Len(all_extracted_data)

\* v.get(k), None when v is not a dict.
SafeGet(v, k) == IF IsDict(v) THEN DGet(v, k) ELSE None

\* The first value of a sequence that is not None.
FirstNonNull(vals) ==
    IF \A k \in 1..Len(vals) : vals[k] = None THEN None
    ELSE vals[Least({k \in 1..Len(vals) : vals[k] # None})]

\* C10 as claimed: for an article/video entry each of likes_count,
\* comments_count, username and caption is the first non-null value in the
\* order meta tags, embedded script; a non-null meta value such as 0 or '' is
\* never overridden.
C10_FirstNonNullWins ==
    \A j \in 1..Len(all_extracted_data) :
        all_extracted_data[j]["content_type"] \in PostTypes =>
            LET e == all_extracted_data[j]
                m == SubDict(origin[j]["raw"], "meta_data")
                sd == SubDict(origin[j]["raw"], "script_data")
            IN  /\ Get(e, "likes_count", None) = _format_count(
                       FirstNonNull(<<SafeGet(m, "likes_count"), SafeGet(sd, "likes")>>))
                /\ Get(e, "comments_count", None) = _format_count(
                       FirstNonNull(<<SafeGet(m, "comments_count"), SafeGet(sd, "comments")>>))
                /\ Get(e, "username", None) =
                       FirstNonNull(<<SafeGet(m, "username"), SafeGet(m, "username_from_title"),
                                      SafeGet(sd, "username")>>)
                /\ Get(e, "caption", None) =
                       FirstNonNull(<<SafeGet(m, "caption"), SafeGet(sd, "caption")>>)

\* The value a direct call returned (None while it is pending or when it raised).
FnValue == IF fn_result[1] = "return" THEN fn_result[2] ELSE None

IsContentTypeCall == fn_args[1] = "_determine_content_type_from_url"

\* A source of the extraction result, an empty mapping when it is missing.
SourceOf(data, k) == IF k \in DOMAIN data THEN data[k] ELSE Dict(EmptyDict)

SourcesAreMappings(data) ==
    IsDict(SourceOf(data, "meta_data")) /\ IsDict(SourceOf(data, "script_data"))

\* A video marker: meta_data.content_type == 'video', or a script_data.is_video
\* or script_data.video_url that is set.
VideoMarked(data) ==
    \/ SafeGet(SourceOf(data, "meta_data"), "content_type") = VideoText
    \/ SafeGet(SourceOf(data, "script_data"), "is_video") \notin {None, Bool(FALSE), EmptyStr}
    \/ SafeGet(SourceOf(data, "script_data"), "video_url") \notin {None, Bool(FALSE), EmptyStr}

\* C11: _determine_content_type_from_url returns for every URL and every
\* extraction result whose sources are mappings, and what it returns is:
\* "video" for a URL containing "/reel/"; otherwise, for a URL containing "/p/",
\* "video" when the sources hold a video marker and "article" when they hold
\* none; "profile" for every other URL.
C11_ContentTypeByUrl ==
    IsContentTypeCall /\ fn_result # FnPending =>
        LET url == fn_args[2]
            data == fn_args[3]
        IN  /\ SourcesAreMappings(data) => fn_result[1] = "return"
            /\ fn_result[1] = "return" =>
                /\ Contains(ReelMark, url) => FnValue = VideoText
                /\ ~Contains(ReelMark, url) /\ Contains(PostMark, url) /\ ~VideoMarked(data)
                       => FnValue = ArticleText
                /\ ~Contains(ReelMark, url) /\ Contains(PostMark, url) /\ VideoMarked(data)
                       => FnValue = VideoText
                /\ ~Contains(ReelMark, url) /\ ~Contains(PostMark, url)
                       => FnValue = ProfileText

\* C11 witness: a "/p/" URL whose only video marker is script_data.video_url
\* was classified as video.
C11_Witness ==
    /\ IsContentTypeCall /\ FnValue = VideoText
    /\ Contains(PostMark, fn_args[2]) /\ ~Contains(ReelMark, fn_args[2])
    /\ fn_args[3] = [meta_data |-> Dict([content_type |-> ArticleText]),
                     script_data |-> Dict([video_url |-> Txt(<<"v">>)])]

IsFormatCountCall == fn_args[1] = "_format_count"

\* t tenths of a unit is a value nearest to n among the multiples of a tenth
\* (a count halfway between two tenths has two nearest values).
NearestTenth(n, unit, t) ==
    LET diff == 10 * n - t * unit
    IN  2 * (IF diff < 0 THEN 0 - diff ELSE diff) <= unit

\* t tenths written with one decimal digit and the suffix, a ".0" left out.
Rendered(t, suffix) ==
    IF t % 10 = 0 THEN NatToText(t \div 10) \o <<suffix>>
    ELSE NatToText(t \div 10) \o <<".", DigitChars[(t % 10) + 1]>> \o <<suffix>>

\* text is the decimal notation of the integer n.
IsDecimalOf(text, n) ==
    LET body == IF n < 0 THEN Tail(text) ELSE text
    IN  /\ n < 0 => text[1] = "-"
        /\ IsDigitText(body)
        /\ TextToNat(body) = (IF n < 0 THEN 0 - n ELSE n)
        /\ Len(body) > 1 => body[1] # "0"

AbbreviatedTo(n, unit, suffix, v) ==
    \E t \in {(10 * n) \div unit, (10 * n) \div unit + 1} :
        NearestTenth(n, unit, t) /\ v = Txt(Rendered(t, suffix))

\* C12: for an integer count _format_count returns a text: for a count of at
\* least 1,000,000 the count in millions rounded to a nearest tenth and "M";
\* for a count from 1000 to 999,999 the count in thousands rounded to a
\* nearest tenth and "K"; in both a ".0" is left out; below 1000 the decimal
\* notation of the count.  16000000 gives "16M", 1500000 "1.5M", 16000 "16K",
\* 16500 "16.5K".
C12_FormatCountAbbreviates ==
    IsFormatCountCall /\ fn_result # FnPending =>
        LET n == fn_args[2][2]
        IN  /\ fn_result[1] = "return" /\ IsStr(FnValue)
            /\ n >= 1000000 => AbbreviatedTo(n, 1000000, "M", FnValue)
            /\ n >= 1000 /\ n < 1000000 => AbbreviatedTo(n, 1000, "K", FnValue)
            /\ n < 1000 => IsDecimalOf(FnValue[2], n)
            /\ n = 16000000 => FnValue = Txt(<<"1", "6", "M">>)
            /\ n = 1500000 => FnValue = Txt(<<"1", ".", "5", "M">>)
            /\ n = 16000 => FnValue = Txt(<<"1", "6", "K">>)
            /\ n = 16500 => FnValue = Txt(<<"1", "6", ".", "5", "K">>)

\* C12 witness: 1500000 was formatted as "1.5M".
C12_Witness ==
    /\ IsFormatCountCall /\ fn_args[2] = Num(1500000)
    /\ FnValue = Txt(<<"1", ".", "5", "M">>)

\* The e-mail-shaped substrings of s, as pairs of their first and last position.
EmailShaped(s) ==
    {p \in (1..Len(s)) \X (1..Len(s)) :
        \E a \in Ats(s), d \in Dots(s) : MatchAt(s, p[1], a, d, p[2])}

\* t is the first e-mail-shaped substring of s: none starts before it, and none
\* starting where it starts is longer.
IsFirstEmail(s, t) ==
    LET shaped == EmailShaped(s)
    IN  \E p \in shaped :
            /\ t = SubSeq(s, p[1], p[2])
            /\ \A q \in shaped : q[1] > p[1] \/ (q[1] = p[1] /\ q[2] <= p[2])

\* C13: in a profile entry, direct or chained, a business_email the source
\* gave (neither null nor empty) is left unchanged; when the source gave none
\* and the biography contains an e-mail-shaped substring, business_email is the
\* first such substring; when it contains none, business_email is null.
C13_EmailBackfill ==
    \A j \in 1..Len(all_extracted_data) :
        IsProfileEntry(all_extracted_data[j]) =>
            LET given == DGet(UserDataOf(j), "business_email")
                bio == Get(UserDataOf(j)[2], "biography", EmptyStr)
                email == all_extracted_data[j]["business_email"]
            IN  /\ given \notin {None, EmptyStr} => email = given
                /\ given \in {None, EmptyStr} /\ IsStr(bio) /\ EmailShaped(bio[2]) # {} =>
                       IsStr(email) /\ IsFirstEmail(bio[2], email[2])
                /\ given \in {None, EmptyStr} /\ IsStr(bio) /\ EmailShaped(bio[2]) = {} =>
                       email = None

\* C13 witness: a chained profile whose source has no business_email and whose
\* biography holds two addresses carries the first one.
C13_Witness ==
    \E j \in 1..Len(all_extracted_data) :
        /\ origin[j]["chained"]
        /\ DGet(UserDataOf(j), "business_email") = None
        /\ DGet(UserDataOf(j), "biography") = BioWithTwoEmails
        /\ all_extracted_data[j]["business_email"] = Txt(<<"a", "@", "b", ".", "c", "c">>)

\* A step in which scrape calls extract_graphql_data (for an input URL or for a
\* chained profile), in which a chained extraction returns, or in which
\* get_stealth_report is called.
UsesSession ==
    \/ attempts' # attempts
    \/ chain_attempts' # chain_attempts
    \/ pc = "chain" /\ pc' # "chain"
    \/ pc = "report" /\ pc' # "report"
    \/ pc = "final_report" /\ pc' # "final_report"

\* C14: every step of scrape that calls extract_graphql_data or
\* get_stealth_report is taken while the session is ready: start() has returned
\* without raising and stop() has not been called; and whenever such a call is
\* the next thing scrape does, the session is ready.
C14_SessionOrdering ==
    /\ [](pc \in {"report", "chain", "final_report"} \/ (pc = "loop" /\ i <= Len(urls))
             => extractor = "Ready" /\ stop_calls = 0)
    /\ [][UsesSession => extractor = "Ready" /\ stop_calls = 0]_vars

\* C14 witness: a returned run that asked for both stealth reports, extracted
\* an input URL and a chained profile, and then stopped the session.
C14_Witness ==
    /\ pc = "done" /\ enable_anti_detection /\ "stealth_report" \in DOMAIN result
    /\ attempts # <<>> /\ chain_attempts # <<>>
    /\ extractor = "Stopped" /\ stop_calls = 1

\* The field of entry j is left out when its source value is null and holds
\* that value otherwise.
OmittedIfNull(j, field, source_value) ==
    IF source_value = None THEN field \notin DOMAIN all_extracted_data[j]
    ELSE /\ field \in DOMAIN all_extracted_data[j]
         /\ all_extracted_data[j][field] = source_value

\* C15: in every entry of data url and content_type are present, and a key
\* whose value is null is one of the three business fields: a full_name or
\* username the profile source gave as null, a post_date the meta tags gave as
\* null, and a count or caption no source gave, are left out of the entry.
C15_NullFieldsOmitted ==
    \A j \in 1..Len(all_extracted_data) :
        LET e == all_extracted_data[j]
        IN  /\ {"url", "content_type"} \subseteq DOMAIN e
            /\ e["url"] # None /\ e["content_type"] # None
            /\ \A k \in DOMAIN e : e[k] = None => k \in business_fields
            /\ IsProfileEntry(e) =>
                /\ OmittedIfNull(j, "full_name", DGet(UserDataOf(j), "full_name"))
                /\ OmittedIfNull(j, "username", DGet(UserDataOf(j), "username"))
                /\ OmittedIfNull(j, "followers_count",
                                 _format_count(DGet(UserDataOf(j), "followers_count")))
            /\ e["content_type"] \in PostTypes =>
                /\ OmittedIfNull(j, "post_date",
                                 DGet(SubDict(origin[j]["raw"], "meta_data"), "post_date"))
                /\ (DGet(SubDict(origin[j]["raw"], "meta_data"), "caption") = None
                     /\ SafeGet(SubDict(origin[j]["raw"], "script_data"), "caption") = None)
                       => "caption" \notin DOMAIN e

\* C15 witness: a profile entry whose source gave full_name as null: the key is
\* left out, while a business field of the entry is present and null.
C15_Witness ==
    \E j \in 1..Len(all_extracted_data) :
        /\ IsProfileEntry(all_extracted_data[j])
        /\ "full_name" \in DOMAIN UserDataOf(j)[2]
        /\ UserDataOf(j)[2]["full_name"] = None
        /\ "full_name" \notin DOMAIN all_extracted_data[j]
        /\ all_extracted_data[j]["business_phone_number"] = None

\* scrape has returned the result of a completed loop.
CompletedRun == pc = "done" /\ LoopEntered

ChainedEntries == {j \in 1..Len(origin) : origin[j]["chained"]}

\* C16 as claimed: in the summary of a completed run
\* additional_profiles_extracted is the number of chained profile entries in
\* data.
C16_AdditionalProfilesAreEntries ==
    CompletedRun =>
        result["summary"]["additional_profiles_extracted"] = Cardinality(ChainedEntries)

\* C17 as claimed: the success rate of a returned summary lies between 0 and
\* 100, and it is 100 exactly when no input URL failed.
C17_SuccessRateIsPercentage ==
    pc = "done" /\ urls # <<>> =>
        LET rate == result["summary"]["success_rate"]
        IN  /\ 0 <= rate[1] /\ rate[1] <= 100 * rate[2]
            /\ rate[1] = 100 * rate[2] <=> result["errors"] = <<>>

\* C18: no extraction is repeated: the extract_graphql_data calls made for
\* input URLs are, in order, one per input position reached so far, and one
\* per position when the loop is over; no two chained extractions are for the
\* same username, whether or not the first one succeeded, and the usernames
\* followed up are the processed ones; so the calls made are at most the
\* input URLs plus the distinct usernames derived.
C18_NoRetries ==
    /\ Len(attempts) <= Len(urls) /\ attempts = SubSeq(urls, 1, Len(attempts))
    /\ LoopDone => attempts = urls
    /\ \A c1, c2 \in 1..Len(chain_attempts) :
           c1 # c2 => chain_attempts[c1]["username"] # chain_attempts[c2]["username"]
    /\ processed_usernames = {chain_attempts[c]["username"] : c \in 1..Len(chain_attempts)}
    /\ \A c \in 1..Len(chain_attempts) : chain_attempts[c]["index"] \in 1..Len(attempts)
    /\ Len(attempts) + Len(chain_attempts) <= Len(urls) + Cardinality(processed_usernames)

\* C18 witness: a completed run of two posts by the same user whose chained
\* extraction failed at the first post and was not made again at the second.
C18_Witness ==
    /\ LoopDone /\ Len(urls) = 2
    /\ Cardinality(PostEntriesOf(T_b)) = 2
    /\ ChainedFor(T_b) = {}
    /\ Cardinality(ChainAttemptsFor(T_b)) = 1
    /\ Len(attempts) + Len(chain_attempts) = 3

\* The entries of data are in input order, each chained profile right before
\* the article or video entry of the URL that led to it.
DataInInputOrder ==
    /\ \A j, k \in 1..Len(origin) :
           j < k /\ ~origin[j]["chained"] /\ ~origin[k]["chained"]
               => origin[j]["index"] < origin[k]["index"]
    /\ \A j \in ChainedEntries :
           /\ j < Len(origin)
           /\ ~origin[j + 1]["chained"]
           /\ origin[j + 1]["index"] = origin[j]["index"]
           /\ all_extracted_data[j + 1]["content_type"] \in PostTypes
           /\ all_extracted_data[j + 1]["url"] = Txt(urls[origin[j]["index"]])
           /\ all_extracted_data[j]["url"] =
                  Txt(ProfileUrl(all_extracted_data[j + 1]["username"]))
    /\ \A j \in 1..Len(origin) :
           ~origin[j]["chained"] => all_extracted_data[j]["url"] = Txt(urls[origin[j]["index"]])

\* C19: at every moment the non-chained entries of data are in the order of
\* their URLs in the input and each chained profile entry stands right before
\* the article or video entry that led to it; every step leaves the entries
\* already in data as they are, in place, and a completed run returns them.
C19_OutputOrder ==
    /\ [](DataInInputOrder /\ (CompletedRun => result["data"] = all_extracted_data))
    /\ [][/\ Len(all_extracted_data') >= Len(all_extracted_data)
           /\ SubSeq(all_extracted_data', 1, Len(all_extracted_data)) = all_extracted_data]_vars

\* C19 witness: a returned run of two URLs whose data is the chained profile
\* found at the first URL, the entry of the first URL, the entry of the second.
C19_Witness ==
    /\ CompletedRun /\ Len(urls) = 2 /\ Len(result["data"]) = 3
    /\ origin[1]["chained"] /\ origin[1]["index"] = 1
    /\ ~origin[2]["chained"] /\ origin[2]["index"] = 1
    /\ ~origin[3]["chained"] /\ origin[3]["index"] = 2

\* C20 as claimed: with two calls of scrape on one instance, every await of a
\* call is made on the extractor that call created; no extraction is pending
\* on a session that was stopped; and once both calls have returned, every
\* extractor that was created has been stopped.
C20_CallsKeepOwnExtractor ==
    /\ \A c \in Calls : call_target[c] \in {0, c}
    /\ \A c \in Calls :
           call_pc[c] \in {"extract", "chain"} => session[call_target[c]] # "Stopped"
    /\ (\A c \in Calls : call_pc[c] = "done") =>
           \A e \in Calls : session[e] \in {"Absent", "Stopped"}

====
